---- MODULE Spec2Model ----
(***************************************************************************)
(* Daily breakdown system: monthly targets are decomposed into daily       *)
(* targets from a growth curve, a weekly and a monthly seasonality series. *)
(*                                                                         *)
(* Numbers.  The program computes in floating point; the model computes    *)
(* the same expressions in exact rational arithmetic.  A rational is a     *)
(* pair <<n, d>> in lowest terms with d > 0.  TLC integers are 32 bit and  *)
(* TLC stops with an error on overflow, so every value a run reports is    *)
(* exact.                                                                  *)
(***************************************************************************)
EXTENDS Integers, Sequences, FiniteSets, TLC

VARIABLES config, bp_data, dim_date_data, last

vars == <<config, bp_data, dim_date_data, last>>

(***************************************************************************)
(* Call by value: the program evaluates the arguments of a call, and the   *)
(* right-hand side of an assignment, once.  Strict1(F, a) is F applied to  *)
(* the value of a, Strict2(F, a, b) is F applied to the values of a and b. *)
(***************************************************************************)
Strict1(F(_), a) == CHOOSE r \in { F(x) : x \in {a} } : TRUE

Strict2(F(_, _), a, b) == CHOOSE r \in { F(x, y) : x \in {a}, y \in {b} } : TRUE

(***************************************************************************)
(* Exact rational arithmetic                                               *)
(***************************************************************************)
Abs(x) == IF x < 0 THEN -x ELSE x

\* Euclid's algorithm, six remainders to a step
RECURSIVE GCD(_, _)
GCD(a, b) ==
    Strict2(LAMBDA x, y :
                IF y = 0 THEN x
                ELSE LET r1 == x % y
                         r2 == y % r1
                         r3 == r1 % r2
                         r4 == r2 % r3
                         r5 == r3 % r4
                         r6 == r4 % r5
                     IN  IF r1 = 0 THEN y
                         ELSE IF r2 = 0 THEN r1
                         ELSE IF r3 = 0 THEN r2
                         ELSE IF r4 = 0 THEN r3
                         ELSE IF r5 = 0 THEN r4
                         ELSE IF r6 = 0 THEN r5
                         ELSE GCD(r5, r6),
            a, b)

Norm(n, d) ==
    Strict2(LAMBDA x, y :
                IF x = 0 THEN <<0, 1>>
                ELSE Strict1(LAMBDA g : IF y < 0 THEN <<(-x) \div g, (-y) \div g>>
                                        ELSE <<x \div g, y \div g>>,
                             GCD(Abs(x), Abs(y))),
            n, d)

Dec(n, d) == Norm(n, d)
RInt(n) == <<n, 1>>
Zero == <<0, 1>>
One == <<1, 1>>

\* x + y over the common denominator d, added as mixed numbers q + r/d with
\* 0 <= r < d so that no intermediate value exceeds d
MixedSum(x, y, d) ==
    LET rx == (x[1] % x[2]) * (d \div x[2])
        ry == (y[1] % y[2]) * (d \div y[2])
        carry == IF rx >= d - ry THEN 1 ELSE 0
        r == IF rx >= d - ry THEN rx - (d - ry) ELSE rx + ry
        q == (x[1] \div x[2]) + (y[1] \div y[2]) + carry
    IN  Strict1(LAMBDA h : <<q * (d \div h) + (r \div h), d \div h>>, GCD(r, d))

RAdd(a, b) ==
    Strict2(LAMBDA x, y :
                Strict1(LAMBDA d : MixedSum(x, y, d), x[2] * (y[2] \div GCD(x[2], y[2]))),
            a, b)

RNeg(a) == Strict1(LAMBDA x : <<-x[1], x[2]>>, a)
RSub(a, b) == RAdd(a, RNeg(b))

\* the product of x and y with g1 = gcd(|x[1]|, y[2]) and g2 = gcd(|y[1]|, x[2])
\* cancelled before the multiplications
CancelledProduct(x, y, g1, g2) ==
    <<(x[1] \div g1) * (y[1] \div g2), (x[2] \div g2) * (y[2] \div g1)>>

RMul(a, b) ==
    Strict2(LAMBDA x, y :
                IF x[1] = 0 \/ y[1] = 0 THEN Zero
                ELSE Strict2(LAMBDA g1, g2 : CancelledProduct(x, y, g1, g2),
                             GCD(Abs(x[1]), y[2]), GCD(Abs(y[1]), x[2])),
            a, b)

\* a / b for b # 0 (the callers test for a zero divisor first)
RDiv(a, b) ==
    RMul(a, Strict1(LAMBDA y : IF y[1] < 0 THEN <<-y[2], -y[1]>> ELSE <<y[2], y[1]>>, b))

RLt(a, b) == Strict2(LAMBDA x, y : x[1] * y[2] < y[1] * x[2], a, b)
RLe(a, b) == Strict2(LAMBDA x, y : x[1] * y[2] <= y[1] * x[2], a, b)
RMax(a, b) == Strict2(LAMBDA x, y : IF RLt(x, y) THEN y ELSE x, a, b)
RMin(a, b) == Strict2(LAMBDA x, y : IF RLt(y, x) THEN y ELSE x, a, b)

\* sum(list): the additions are exact, so their order does not change the sum;
\* the list is added by halves
RECURSIVE RSum(_)
RSum(s) ==
    Strict1(LAMBDA t : IF t = <<>> THEN Zero
                       ELSE IF Len(t) = 1 THEN t[1]
                       ELSE RAdd(RSum(SubSeq(t, 1, Len(t) \div 2)),
                                 RSum(SubSeq(t, Len(t) \div 2 + 1, Len(t)))),
            s)

\* the sequence f[1], ..., f[n] with every element evaluated once
Seq1(f, n) == SubSeq(f, 1, n)

(***************************************************************************)
(* Results of calls: a value, or the exception the call raises             *)
(***************************************************************************)
Ok(v) == [ok |-> TRUE, val |-> v, err |-> "none"]
Raise(e) == [ok |-> FALSE, val |-> <<>>, err |-> e]
\* a call that was made and has not returned yet
Pending == [ok |-> FALSE, val |-> <<>>, err |-> "pending"]

(***************************************************************************)
(* DailyBreakdownConfig                                                    *)
(***************************************************************************)
\* _generate_default_monthly_coefficients: day in 1..31
DefaultMonthlyWeight(day) ==
    LET day_position == Dec(day - 1, 30)
    IN  IF RLt(day_position, Dec(25, 100))
          THEN RAdd(Dec(90, 100), RMul(day_position, Dec(4, 10)))
        ELSE IF RLt(day_position, Dec(5, 10))
          THEN RAdd(One, RMul(RSub(day_position, Dec(25, 100)), Dec(4, 10)))
        ELSE IF RLt(day_position, Dec(75, 100))
          THEN RSub(Dec(105, 100), RMul(RSub(day_position, Dec(5, 10)), Dec(2, 10)))
        ELSE RSub(One, RMul(RSub(day_position, Dec(75, 100)), Dec(2, 10)))

\* _generate_salary_cycle_coefficients
SalaryCycleWeight(day) ==
    IF day <= 5 THEN Dec(130, 100)
    ELSE IF day <= 10 THEN Dec(115, 100)
    ELSE IF day <= 20 THEN Dec(95, 100)
    ELSE IF day <= 25 THEN Dec(85, 100)
    ELSE Dec(75, 100)

\* _generate_month_end_heavy_coefficients
MonthEndHeavyWeight(day) ==
    LET day_position == Dec(day - 1, 30)
    IN  IF RLt(day_position, Dec(3, 10))
          THEN RAdd(Dec(80, 100), RMul(day_position, Dec(4, 10)))
        ELSE IF RLt(day_position, Dec(7, 10))
          THEN RAdd(Dec(92, 100), RMul(RSub(day_position, Dec(3, 10)), Dec(2, 10)))
        ELSE RAdd(One, RMul(RSub(day_position, Dec(7, 10)), Dec(5, 10)))

\* DailyBreakdownConfig.__init__
DefaultConfig ==
    [ weekly_coefficients |->
        [ default |-> <<Dec(85, 100), Dec(90, 100), Dec(95, 100), Dec(105, 100),
                        Dec(110, 100), Dec(110, 100), Dec(85, 100)>>,
          business_focused |-> <<Dec(70, 100), Dec(80, 100), Dec(115, 100), Dec(120, 100),
                                 Dec(125, 100), Dec(120, 100), Dec(70, 100)>>,
          weekend_heavy |-> <<Dec(120, 100), Dec(130, 100), Dec(80, 100), Dec(85, 100),
                              Dec(90, 100), Dec(85, 100), Dec(115, 100)>>,
          balanced |-> Seq1([i \in 1..7 |-> One], 7) ],
      monthly_coefficients |->
        [ default |-> Seq1([day \in 1..31 |-> DefaultMonthlyWeight(day)], 31),
          salary_cycle |-> Seq1([day \in 1..31 |-> SalaryCycleWeight(day)], 31),
          month_end_heavy |-> Seq1([day \in 1..31 |-> MonthEndHeavyWeight(day)], 31),
          balanced |-> Seq1([day \in 1..31 |-> One], 31) ],
      growth_rate |-> Dec(12, 1000),
      growth_smoothing |-> Dec(5, 10),
      weekly_smoothing |-> Dec(3, 10),
      monthly_smoothing |-> Dec(4, 10),
      regression_windows |-> <<30, 7>>,
      regression_smoothing |-> Dec(3, 10),
      min_growth_rate |-> Dec(1, 1000),
      max_growth_rate |-> Dec(5, 100) ]

\* from_dict: every key of the dictionary that is an attribute replaces it
FromDict(config_dict) ==
    [key \in DOMAIN DefaultConfig |->
        IF key \in DOMAIN config_dict THEN config_dict[key] ELSE DefaultConfig[key]]

\* sorted(windows, reverse=True)
RECURSIVE InsertDesc(_, _)
InsertDesc(s, w) ==
    Strict1(LAMBDA t : IF t = <<>> THEN <<w>>
                       ELSE IF w > t[1] THEN <<w>> \o t
                       ELSE <<t[1]>> \o InsertDesc(Tail(t), w),
            s)

RECURSIVE SortedDesc(_)
SortedDesc(windows) ==
    IF windows = <<>> THEN <<>>
    ELSE InsertDesc(SortedDesc(Tail(windows)), windows[1])

\* set_regression_windows: the windows are integers here, so the test that is left is w > 0
SetRegressionWindowsResult(cfg, windows) ==
    IF \E i \in 1..Len(windows) : ~(windows[i] > 0)
      THEN [config |-> cfg, ret |-> Raise("ValueError")]
      ELSE [config |-> [cfg EXCEPT !.regression_windows = SortedDesc(windows)],
            ret |-> Ok(<<>>)]

\* registry[pattern_name] = coefficients on a dictionary
Register(registry, pattern_name, coefficients) ==
    [name \in DOMAIN registry \cup {pattern_name} |->
        IF name = pattern_name THEN coefficients ELSE registry[name]]

\* set_weekly_coefficients without the test of the length
SetWeeklyCoefficientsUnchecked(cfg, coefficients, pattern_name) ==
    [config |-> [cfg EXCEPT !.weekly_coefficients = Register(@, pattern_name, coefficients)],
     ret |-> Ok(<<>>)]

\* set_weekly_coefficients: the configuration it leaves and what it returns or raises
SetWeeklyCoefficientsResult(cfg, coefficients, pattern_name) ==
    IF Len(coefficients) # 7
      THEN [config |-> cfg, ret |-> Raise("ValueError")]
      ELSE [config |-> [cfg EXCEPT !.weekly_coefficients =
                                      Register(@, pattern_name, coefficients)],
            ret |-> Ok(<<>>)]

\* set_monthly_coefficients
SetMonthlyCoefficientsResult(cfg, coefficients, pattern_name) ==
    IF Len(coefficients) < 29 \/ Len(coefficients) > 31
      THEN [config |-> cfg, ret |-> Raise("ValueError")]
      ELSE [config |-> [cfg EXCEPT !.monthly_coefficients =
                                      Register(@, pattern_name, coefficients)],
            ret |-> Ok(<<>>)]

\* get_weekly_coefficients with the balanced set as the fallback
GetWeeklyCoefficientsBalanced(cfg, pattern_name) ==
    IF pattern_name \in DOMAIN cfg.weekly_coefficients
      THEN cfg.weekly_coefficients[pattern_name]
      ELSE cfg.weekly_coefficients["balanced"]

\* get_weekly_coefficients / get_monthly_coefficients: dict.get(name, dict['default'])
GetWeeklyCoefficients(cfg, pattern_name) ==
    IF pattern_name \in DOMAIN cfg.weekly_coefficients
      THEN cfg.weekly_coefficients[pattern_name]
      ELSE cfg.weekly_coefficients["default"]

GetMonthlyCoefficients(cfg, pattern_name) ==
    IF pattern_name \in DOMAIN cfg.monthly_coefficients
      THEN cfg.monthly_coefficients[pattern_name]
      ELSE cfg.monthly_coefficients["default"]

(***************************************************************************)
(* The smoothing primitive (the two _smooth_weights methods are the same   *)
(* code)                                                                   *)
(***************************************************************************)
\* the sum of the neighbourhood of a weight, without the division by its size
LocalSum(weights, i) ==
    IF i = 1 THEN RAdd(weights[i], weights[i + 1])
    ELSE IF i = Len(weights) THEN RAdd(weights[i - 1], weights[i])
    ELSE RAdd(RAdd(weights[i - 1], weights[i]), weights[i + 1])

\* the neighbourhood sum divided by 3 at every position, the two ends included
LocalAverageOfThree(weights, i) == RDiv(LocalSum(weights, i), RInt(3))

\* the moving average at 1-based position i of a sequence of length >= 2
LocalAverage(weights, i) ==
    IF i = 1 THEN RDiv(RAdd(weights[i], weights[i + 1]), RInt(2))
    ELSE IF i = Len(weights) THEN RDiv(RAdd(weights[i - 1], weights[i]), RInt(2))
    ELSE RDiv(RAdd(RAdd(weights[i - 1], weights[i]), weights[i + 1]), RInt(3))

\* _smooth_weights that leaves the smoothing factor out: every weight becomes its
\* local average
SmoothWeightsFully(weights, smoothing_factor) ==
    IF Len(weights) = 1 THEN Raise("IndexError")
    ELSE Ok(Seq1([i \in 1..Len(weights) |-> LocalAverage(weights, i)], Len(weights)))

\* _smooth_weights with the average taken away instead of blended in:
\* weights[i] * (1 + factor) - smoothed * factor
SmoothWeightsSharpened(weights, smoothing_factor) ==
    IF Len(weights) = 1 THEN Raise("IndexError")
    ELSE Ok(Seq1([i \in 1..Len(weights) |->
                     RSub(RMul(weights[i], RAdd(One, smoothing_factor)),
                          RMul(LocalAverage(weights, i), smoothing_factor))],
                 Len(weights)))

\* i == 0 reads weights[i+1]: with one weight that index is out of range
SmoothWeights(weights, smoothing_factor) ==
    Strict2(LAMBDA w, factor :
                IF Len(w) = 1 THEN Raise("IndexError")
                ELSE Ok(Seq1([i \in 1..Len(w) |->
                                 RAdd(RMul(w[i], RSub(One, factor)),
                                      RMul(LocalAverage(w, i), factor))],
                             Len(w))),
            weights, smoothing_factor)

(***************************************************************************)
(* RegressionGrowthCalculator                                              *)
(***************************************************************************)
RECURSIVE RPow(_, _)
RPow(q, k) == IF k = 0 THEN One ELSE RMul(RPow(q, k - 1), q)

RECURSIVE IPow(_, _)
IPow(x, k) == IF k = 0 THEN 1 ELSE x * IPow(x, k - 1)

\* the k-th root of a rational that is a perfect k-th power
RRoot(q, k) ==
    <<CHOOSE x \in 0..q[1] : IPow(x, k) = q[1], CHOOSE x \in 1..q[2] : IPow(x, k) = q[2]>>

\* stats.linregress(x, log(window_data)) with x = 0..W-1.  The slope is
\*   sum((x_i - mean(x)) * log(y_i)) / sum((x_i - mean(x))^2);
\* with a_i = 2*i - (W-1), g = gcd of the a_i and k = sum(a_i^2) / (2*g) it is
\*   log(prod(y_i ^ (a_i/g))) / k,
\* so exp(slope) is the k-th root of the rational prod(y_i ^ (a_i/g)).
\* the coefficients with x running backwards, W-1 down to 0
SlopeCoefficientReversed(W, i) == (W - 1) - 2 * (i - 1)
SlopeCoefficient(W, i) == 2 * (i - 1) - (W - 1)
SlopeGcd(W) == IF W % 2 = 1 THEN 2 ELSE 1

RECURSIVE SumSquares(_, _)
SumSquares(W, i) ==
    IF i = 0 THEN 0 ELSE SumSquares(W, i - 1) + SlopeCoefficient(W, i) * SlopeCoefficient(W, i)

SlopeIndex(W) == SumSquares(W, W) \div (2 * SlopeGcd(W))

RECURSIVE SlopeRadicand(_, _)
SlopeRadicand(window_data, i) ==
    IF i = 0 THEN One
    ELSE LET W == Len(window_data)
             e == SlopeCoefficient(W, i) \div SlopeGcd(W)
             y == Dec(window_data[i], 1)
         IN  RMul(SlopeRadicand(window_data, i - 1),
                  IF e >= 0 THEN RPow(y, e) ELSE RPow(RDiv(One, y), -e))

\* the rate of a window with the upper clamp left out: a rate above the upper
\* bound is replaced by the lower bound
WindowGrowthRateFloored(cfg, window_data) ==
    Strict2(LAMBDA k, radicand :
                IF RLe(RPow(RAdd(One, cfg.max_growth_rate), k), radicand)
                  THEN cfg.min_growth_rate
                ELSE IF RLe(radicand, RPow(RAdd(One, cfg.min_growth_rate), k))
                  THEN cfg.min_growth_rate
                ELSE RSub(RRoot(radicand, k), One),
            SlopeIndex(Len(window_data)), SlopeRadicand(window_data, Len(window_data)))

\* daily_growth = max(min_growth_rate, min(max_growth_rate, exp(slope) - 1)).
\* With 1 + b > 0, x^(1/k) - 1 >= b is decided as x >= (1 + b)^k; strictly between
\* the bounds the rate is the root itself.
WindowGrowthRate(cfg, window_data) ==
    Strict2(LAMBDA k, radicand :
                IF RLe(RPow(RAdd(One, cfg.max_growth_rate), k), radicand)
                  THEN RMax(cfg.min_growth_rate, cfg.max_growth_rate)
                ELSE IF RLe(radicand, RPow(RAdd(One, cfg.min_growth_rate), k))
                  THEN cfg.min_growth_rate
                ELSE RSub(RRoot(radicand, k), One),
            SlopeIndex(Len(window_data)), SlopeRadicand(window_data, Len(window_data)))

\* monthly_targets[a:b] with 0-based a >= 0
Slice(s, a, b) == SubSeq(s, a + 1, IF b < Len(s) THEN b ELSE Len(s))

\* the rates collected by the loop over regression_windows from position j on
RECURSIVE CollectedRates(_, _, _, _)
CollectedRates(cfg, monthly_targets, current_month_index, j) ==
    IF j > Len(cfg.regression_windows) THEN <<>>
    ELSE LET window_size == cfg.regression_windows[j]
             rest == CollectedRates(cfg, monthly_targets, current_month_index, j + 1)
         IN  IF current_month_index >= window_size - 1
               THEN Strict1(LAMBDA window_data :
                                IF Len(window_data) >= 2
                                  THEN <<WindowGrowthRate(cfg, window_data)>> \o rest
                                  ELSE rest,
                            Slice(monthly_targets, current_month_index - window_size + 1,
                                  current_month_index + 1))
               ELSE rest

\* the window sizes whose rates were collected, in the same order
RECURSIVE CollectedWindows(_, _, _, _)
CollectedWindows(cfg, monthly_targets, current_month_index, j) ==
    IF j > Len(cfg.regression_windows) THEN <<>>
    ELSE LET window_size == cfg.regression_windows[j]
             window_data == Slice(monthly_targets, current_month_index - window_size + 1,
                                  current_month_index + 1)
             rest == CollectedWindows(cfg, monthly_targets, current_month_index, j + 1)
         IN  IF current_month_index >= window_size - 1 /\ Len(window_data) >= 2
               THEN <<window_size>> \o rest
               ELSE rest

\* regression_windows[:len(growth_rates)]
AveragingWeights(cfg, growth_rates) == SubSeq(cfg.regression_windows, 1, Len(growth_rates))

RECURSIVE ISum(_)
ISum(s) == IF s = <<>> THEN 0 ELSE s[1] + ISum(Tail(s))

WeightedAverage(growth_rates, weights) ==
    Strict2(LAMBDA rates, ws :
                RDiv(RSum(Seq1([i \in 1..Len(rates) |-> RMul(rates[i], RInt(ws[i]))],
                               Len(rates))),
                     RInt(ISum(ws))),
            growth_rates, weights)

\* calculate_regression_growth falling back to the lower bound of the rates
CalculateRegressionGrowthFloor(cfg, monthly_targets, current_month_index) ==
    IF Len(monthly_targets) < 2 THEN cfg.growth_rate
    ELSE Strict1(LAMBDA growth_rates :
                     IF growth_rates = <<>> THEN cfg.min_growth_rate
                     ELSE WeightedAverage(growth_rates, AveragingWeights(cfg, growth_rates)),
                 CollectedRates(cfg, monthly_targets, current_month_index, 1))

\* RegressionGrowthCalculator.calculate_regression_growth
CalculateRegressionGrowth(cfg, monthly_targets, current_month_index) ==
    IF Len(monthly_targets) < 2 THEN cfg.growth_rate
    ELSE Strict1(LAMBDA growth_rates :
                     IF growth_rates = <<>> THEN cfg.growth_rate
                     ELSE WeightedAverage(growth_rates, AveragingWeights(cfg, growth_rates)),
                 CollectedRates(cfg, monthly_targets, current_month_index, 1))

\* the four segments of RegressionGrowthCalculator.apply_regression_growth_curve
RegressionGrowthFactor(growth_rate, normalized_day) ==
    IF RLt(normalized_day, Dec(2, 10))
      THEN RAdd(One, RMul(RMul(RMul(growth_rate, Dec(5, 10)), normalized_day), RInt(5)))
    ELSE IF RLt(normalized_day, Dec(6, 10))
      THEN LET mid_point == RDiv(RSub(normalized_day, Dec(2, 10)), Dec(4, 10))
           IN  RAdd(One, RMul(RMul(growth_rate, Dec(8, 10)),
                              RAdd(Dec(5, 10), RMul(mid_point, Dec(5, 10)))))
    ELSE IF RLt(normalized_day, Dec(9, 10))
      THEN LET end_point == RDiv(RSub(normalized_day, Dec(6, 10)), Dec(3, 10))
           IN  RAdd(One, RMul(RMul(growth_rate, Dec(6, 10)),
                              RAdd(Dec(8, 10), RMul(end_point, Dec(2, 10)))))
    ELSE LET final_point == RDiv(RSub(normalized_day, Dec(9, 10)), Dec(1, 10))
         IN  RAdd(One, RMul(RMul(growth_rate, Dec(3, 10)),
                            RAdd(Dec(9, 10), RMul(final_point, Dec(1, 10)))))

\* RegressionGrowthCalculator.apply_regression_growth_curve
RegressionCurve(cfg, days_in_month, growth_rate) ==
    Strict1(LAMBDA rate :
                SmoothWeights(Seq1([d \in 1..days_in_month |->
                                       RegressionGrowthFactor(rate,
                                                              Dec(d - 1, days_in_month))],
                                   days_in_month),
                              cfg.regression_smoothing),
            growth_rate)

(***************************************************************************)
(* DailyBreakdownCalculator                                                *)
(***************************************************************************)
\* get_weekday_from_persian_date: int(str(persian_date)[6:8]) is the last two
\* digits of the eight-digit date YYYYMMDD; the weekday is (day - 1) % 7
GetWeekdayFromPersianDate(persian_date) == ((persian_date % 100) - 1) % 7

\* apply_weekly_seasonality (weekday indices are 0-based, sequences 1-based)
ApplyWeeklySeasonality(cfg, weekdays, pattern_name) ==
    LET coefficients == GetWeeklyCoefficients(cfg, pattern_name)
    IN  SmoothWeights(Seq1([i \in 1..Len(weekdays) |-> coefficients[weekdays[i] + 1]],
                           Len(weekdays)),
                      cfg.weekly_smoothing)

\* the coefficients repeated from the first one on when the month is longer than the set
MonthlyWeightsCycled(coefficients, days_in_month) ==
    Seq1([i \in 1..days_in_month |-> coefficients[((i - 1) % Len(coefficients)) + 1]],
         days_in_month)

\* coefficients[:days_in_month], or coefficients + [1.0] * (days_in_month - len)
MonthlyWeights(coefficients, days_in_month) ==
    IF days_in_month <= Len(coefficients)
      THEN SubSeq(coefficients, 1, days_in_month)
      ELSE coefficients \o Seq1([i \in 1..(days_in_month - Len(coefficients)) |-> One],
                                days_in_month - Len(coefficients))

\* apply_monthly_seasonality
ApplyMonthlySeasonality(cfg, days_in_month, pattern_name) ==
    SmoothWeights(MonthlyWeights(GetMonthlyCoefficients(cfg, pattern_name), days_in_month),
                  cfg.monthly_smoothing)

\* the three segment formulas of apply_growth_curve
GrowthSegment1(growth_rate, normalized_day) ==
    RAdd(One, RMul(RMul(RMul(growth_rate, Dec(3, 10)), normalized_day), RInt(10)))

GrowthSegment2(growth_rate, normalized_day) ==
    LET mid_point == RDiv(RSub(normalized_day, Dec(3, 10)), Dec(4, 10))
    IN  RAdd(One, RMul(RMul(growth_rate, Dec(8, 10)),
                       RAdd(Dec(3, 10), RMul(mid_point, Dec(7, 10)))))

GrowthSegment3(growth_rate, normalized_day) ==
    LET end_point == RDiv(RSub(normalized_day, Dec(7, 10)), Dec(3, 10))
    IN  RAdd(One, RMul(RMul(growth_rate, Dec(6, 10)),
                       RAdd(Dec(8, 10), RMul(end_point, Dec(2, 10)))))

GrowthFactor(growth_rate, normalized_day) ==
    IF RLt(normalized_day, Dec(3, 10)) THEN GrowthSegment1(growth_rate, normalized_day)
    ELSE IF RLt(normalized_day, Dec(7, 10)) THEN GrowthSegment2(growth_rate, normalized_day)
    ELSE GrowthSegment3(growth_rate, normalized_day)

\* apply_growth_curve taking a growth rate of zero for a missing one and using
\* the default rate in its place
ApplyGrowthCurveDefaulting(cfg, days_in_month) ==
    LET growth_rate == IF cfg.growth_rate = Zero THEN Dec(12, 1000) ELSE cfg.growth_rate
    IN  SmoothWeights(Seq1([d \in 1..days_in_month |->
                               GrowthFactor(growth_rate, Dec(d - 1, days_in_month))],
                           days_in_month),
                      cfg.growth_smoothing)

\* apply_growth_curve
ApplyGrowthCurve(cfg, days_in_month) ==
    SmoothWeights(Seq1([d \in 1..days_in_month |->
                           GrowthFactor(cfg.growth_rate, Dec(d - 1, days_in_month))],
                       days_in_month),
                  cfg.growth_smoothing)

\* DailyBreakdownCalculator.apply_regression_growth_curve
ApplyRegressionGrowthCurve(cfg, days_in_month, monthly_targets, current_month_index) ==
    RegressionCurve(cfg, days_in_month,
                    CalculateRegressionGrowth(cfg, monthly_targets, current_month_index))

\* Optional arguments: Some(v), or None
Some(v) == [some |-> TRUE, val |-> v]
None == [some |-> FALSE, val |-> <<>>]

\* the branch of step 1 of calculate_daily_targets
UsesRegression(use_regression, monthly_targets, current_month_index) ==
    use_regression /\ monthly_targets.some /\ current_month_index.some

\* the growth rate the growth curve of a call is built from
GrowthRateUsed(cfg, use_regression, monthly_targets, current_month_index) ==
    IF UsesRegression(use_regression, monthly_targets, current_month_index)
      THEN CalculateRegressionGrowth(cfg, monthly_targets.val, current_month_index.val)
      ELSE cfg.growth_rate

\* the deviation of the mean of the three weights from the neutral weight 1
CombinedDeviations(growth_curve, weekly_weights, monthly_weights) ==
    Seq1([i \in 1..Len(growth_curve) |->
             RSub(RDiv(RAdd(RAdd(growth_curve[i], weekly_weights[i]), monthly_weights[i]),
                       RInt(3)),
                  One)],
         Len(growth_curve))

\* the three weights of every day combined by their product
CombinedProducts(growth_curve, weekly_weights, monthly_weights) ==
    Seq1([i \in 1..Len(growth_curve) |->
             RMul(RMul(growth_curve[i], weekly_weights[i]), monthly_weights[i])],
         Len(growth_curve))

\* step 4: the arithmetic mean of the three weights of every day
CombinedWeights(growth_curve, weekly_weights, monthly_weights) ==
    Seq1([i \in 1..Len(growth_curve) |->
             RDiv(RAdd(RAdd(growth_curve[i], weekly_weights[i]), monthly_weights[i]),
                  RInt(3))],
         Len(growth_curve))

\* Normalize with the number of days as the divisor
NormalizeByDays(monthly_target, final_weights) ==
    Ok(Seq1([i \in 1..Len(final_weights) |->
                RDiv(RMul(monthly_target, final_weights[i]), RInt(Len(final_weights)))],
            Len(final_weights)))

\* Normalize returning targets of zero when the weights sum to zero
NormalizeOrZeros(monthly_target, final_weights) ==
    Strict1(LAMBDA total_weight :
                Ok(Seq1([i \in 1..Len(final_weights) |->
                            IF total_weight = Zero THEN Zero
                            ELSE RDiv(RMul(monthly_target, final_weights[i]), total_weight)],
                        Len(final_weights))),
            RSum(final_weights))

\* step 6: monthly_target * weight / total_weight for every weight
Normalize(monthly_target, final_weights) ==
    Strict1(LAMBDA total_weight :
                IF final_weights # <<>> /\ total_weight = Zero
                  THEN Raise("ZeroDivisionError")
                  ELSE Ok(Seq1([i \in 1..Len(final_weights) |->
                                   RDiv(RMul(monthly_target, final_weights[i]),
                                        total_weight)],
                               Len(final_weights))),
            RSum(final_weights))

\* steps 4 to 6 of calculate_daily_targets: each of the three weight series is the
\* result of its call, a value or the exception the call raised
CombineAndNormalize(monthly_target, curves) ==
    LET growth_curve == curves[1]
        weekly_weights == curves[2]
        monthly_weights == curves[3]
    IN  IF ~growth_curve.ok THEN growth_curve
        ELSE IF ~weekly_weights.ok THEN weekly_weights
        ELSE IF ~monthly_weights.ok THEN monthly_weights
        ELSE Strict1(LAMBDA final_weights :
                         IF ~final_weights.ok THEN final_weights
                         ELSE Normalize(monthly_target, final_weights.val),
                     SmoothWeights(CombinedWeights(growth_curve.val, weekly_weights.val,
                                                   monthly_weights.val),
                                   Dec(1, 10)))

\* the weekdays of the calendar rows of the month
Weekdays(month_dates) ==
    Seq1([i \in 1..Len(month_dates) |->
             GetWeekdayFromPersianDate(month_dates[i].persian_date)],
         Len(month_dates))

\* calculate_daily_targets; month_dates is the sequence of the month's calendar rows,
\* monthly_targets and current_month_index are optional
CalculateDailyTargets(cfg, monthly_target, month_dates, weekly_pattern, monthly_pattern, use_regression, monthly_targets, current_month_index) ==
    LET days_in_month == Len(month_dates)
        growth_curve ==
            IF UsesRegression(use_regression, monthly_targets, current_month_index)
              THEN ApplyRegressionGrowthCurve(cfg, days_in_month, monthly_targets.val,
                                              current_month_index.val)
              ELSE ApplyGrowthCurve(cfg, days_in_month)
        weekly_weights == ApplyWeeklySeasonality(cfg, Weekdays(month_dates), weekly_pattern)
        monthly_weights == ApplyMonthlySeasonality(cfg, days_in_month, monthly_pattern)
    IN  Strict1(LAMBDA curves : CombineAndNormalize(monthly_target, curves),
                <<growth_curve, weekly_weights, monthly_weights>>)

(***************************************************************************)
(* DataLoader                                                              *)
(***************************************************************************)
\* the order of the text values of the line column used by the model
LineRank(line) == IF line = "A" THEN 1 ELSE IF line = "B" THEN 2 ELSE 3

\* the sort key of get_monthly_targets: year, month, line (metric and sub_metric
\* are the same in every row of the model's tables)
TargetRowBefore(r1, r2) ==
    \/ r1.year < r2.year
    \/ r1.year = r2.year /\ r1.month < r2.month
    \/ r1.year = r2.year /\ r1.month = r2.month /\ LineRank(r1.line) < LineRank(r2.line)

\* bp_df.sort_values([...]): a stable sort
RECURSIVE InsertTargetRow(_, _)
InsertTargetRow(sorted, row) ==
    Strict1(LAMBDA s : IF s = <<>> THEN <<row>>
                       ELSE IF TargetRowBefore(row, s[1]) THEN <<row>> \o s
                       ELSE <<s[1]>> \o InsertTargetRow(Tail(s), row),
            sorted)

RECURSIVE SortTargetRows(_)
SortTargetRows(rows) ==
    IF rows = <<>> THEN <<>>
    ELSE InsertTargetRow(SortTargetRows(SubSeq(rows, 1, Len(rows) - 1)), rows[Len(rows)])

\* get_monthly_targets
GetMonthlyTargets(bp_df) ==
    Strict1(LAMBDA sorted_bp :
                Seq1([i \in 1..Len(sorted_bp) |-> sorted_bp[i].target], Len(sorted_bp)),
            SortTargetRows(bp_df))

\* dim_date_df[(year == year) & (month == month)]
RECURSIVE SelectMonth(_, _, _)
SelectMonth(rows, year, month) ==
    IF rows = <<>> THEN <<>>
    ELSE (IF rows[1].year = year /\ rows[1].month = month THEN <<rows[1]>> ELSE <<>>)
         \o SelectMonth(Tail(rows), year, month)

\* .sort_values('persian_date')
RECURSIVE InsertDateRow(_, _)
InsertDateRow(sorted, row) ==
    Strict1(LAMBDA s : IF s = <<>> THEN <<row>>
                       ELSE IF row.persian_date < s[1].persian_date THEN <<row>> \o s
                       ELSE <<s[1]>> \o InsertDateRow(Tail(s), row),
            sorted)

RECURSIVE SortDateRows(_)
SortDateRows(rows) ==
    IF rows = <<>> THEN <<>>
    ELSE InsertDateRow(SortDateRows(SubSeq(rows, 1, Len(rows) - 1)), rows[Len(rows)])

\* get_month_dates returning the rows it selected even when there are none
GetMonthDatesOrNone(dim_date_df, year, month) ==
    Ok(SortDateRows(SelectMonth(dim_date_df, year, month)))

\* get_month_dates returning the rows of the month in the order of the file
GetMonthDatesFileOrder(dim_date_df, year, month) ==
    Strict1(LAMBDA month_dates :
                IF Len(month_dates) = 0 THEN Raise("ValueError") ELSE Ok(month_dates),
            SelectMonth(dim_date_df, year, month))

\* get_month_dates
GetMonthDates(dim_date_df, year, month) ==
    Strict1(LAMBDA month_dates :
                IF Len(month_dates) = 0 THEN Raise("ValueError") ELSE Ok(month_dates),
            SortDateRows(SelectMonth(dim_date_df, year, month)))

\* validate_data_compatibility
ValidateDataCompatibility(bp_df, dim_date_df) ==
    LET bp_years_months == {<<bp_df[i].year, bp_df[i].month>> : i \in 1..Len(bp_df)}
        dim_years_months ==
            {<<dim_date_df[i].year, dim_date_df[i].month>> : i \in 1..Len(dim_date_df)}
    IN  IF bp_years_months \ dim_years_months # {} THEN Raise("ValueError") ELSE Ok(TRUE)

(***************************************************************************)
(* DailyBreakdownSystem                                                    *)
(***************************************************************************)
\* a table that was not loaded yet (self.bp_data = None), and a loaded table
NotLoaded == [loaded |-> FALSE, rows |-> <<>>]
Loaded(rows) == [loaded |-> TRUE, rows |-> rows]

\* str(self.config.regression_windows): the text of the list, which names the list
StrOfList(windows) == [text_of |-> windows]

\* the regression_windows argument is used when it is given and not empty
WindowsGiven(use_regression, regression_windows) ==
    use_regression /\ regression_windows.some /\ regression_windows.val # <<>>

\* RowMonthlyTarget reading the first row of the table
FirstRowTarget(bp_rows, idx) == bp_rows[1].target

\* the target the daily targets of row idx are computed from
RowMonthlyTarget(bp_rows, idx) == bp_rows[idx].target

\* one daily record of create_daily_breakdown
DailyRecord(cfg, bp_row, date_row, daily_target, weekly_pattern, monthly_pattern, use_regression) ==
    [ year |-> bp_row.year,
      month |-> bp_row.month,
      persian_date |-> date_row.persian_date,
      date_id |-> date_row.date_id,
      date_string |-> date_row.date_string,
      line |-> bp_row.line,
      metric |-> bp_row.metric,
      sub_metric |-> bp_row.sub_metric,
      daily_target |-> daily_target,
      unit |-> bp_row.unit,
      distribution_method |->
          IF use_regression THEN "regression_seasonal_growth" ELSE "smooth_seasonal_growth",
      growth_rate |-> cfg.growth_rate,
      weekly_smoothing |-> cfg.weekly_smoothing,
      monthly_smoothing |-> cfg.monthly_smoothing,
      growth_smoothing |-> cfg.growth_smoothing,
      weekly_pattern |-> weekly_pattern,
      monthly_pattern |-> monthly_pattern,
      use_regression |-> use_regression,
      regression_windows |->
          IF use_regression THEN Some(StrOfList(cfg.regression_windows)) ELSE None ]

\* the daily records of the row at 1-based position idx from the calendar rows of
\* its month and its daily targets
RecordsOf(cfg, bp_row, month_dates, daily_targets, weekly_pattern, monthly_pattern, use_regression) ==
    Seq1([i \in 1..Len(month_dates) |->
             DailyRecord(cfg, bp_row, month_dates[i], daily_targets[i], weekly_pattern,
                         monthly_pattern, use_regression)],
         Len(month_dates))

\* the index label iterrows gives for the row at 1-based position idx of the
\* table as read from the file
IndexLabel(idx) == idx - 1

\* the body of the loop over bp_data for the row at 1-based position idx (its
\* index label is idx - 1): the daily records of the row, or the exception
RowRecords(cfg, bp_rows, dim_rows, idx, weekly_pattern, monthly_pattern, use_regression, monthly_targets) ==
    Strict1(LAMBDA month_dates :
                IF ~month_dates.ok THEN month_dates
                ELSE Strict1(LAMBDA daily_targets :
                                 IF ~daily_targets.ok THEN daily_targets
                                 ELSE Ok(RecordsOf(cfg, bp_rows[idx], month_dates.val,
                                                   daily_targets.val, weekly_pattern,
                                                   monthly_pattern, use_regression)),
                             CalculateDailyTargets(cfg, RInt(RowMonthlyTarget(bp_rows, idx)),
                                                   month_dates.val, weekly_pattern,
                                                   monthly_pattern, use_regression,
                                                   monthly_targets, Some(IndexLabel(idx)))),
            GetMonthDates(dim_rows, bp_rows[idx].year, bp_rows[idx].month))

\* the records collected from the results of the rows from position idx on, or
\* the first exception among them
RECURSIVE CollectedFrom(_, _)
CollectedFrom(rows, idx) ==
    IF idx > Len(rows) THEN Ok(<<>>)
    ELSE IF ~rows[idx].ok THEN rows[idx]
    ELSE Strict1(LAMBDA rest : IF ~rest.ok THEN rest ELSE Ok(rows[idx].val \o rest.val),
                 CollectedFrom(rows, idx + 1))

\* the loop over the rows from position idx on: all the records, or the first exception
BreakdownFrom(cfg, bp_rows, dim_rows, idx, weekly_pattern, monthly_pattern, use_regression, monthly_targets) ==
    Strict1(LAMBDA rows : CollectedFrom(rows, idx),
            Seq1([i \in 1..Len(bp_rows) |->
                     IF i < idx THEN Ok(<<>>)
                     ELSE RowRecords(cfg, bp_rows, dim_rows, i, weekly_pattern,
                                     monthly_pattern, use_regression, monthly_targets)],
                 Len(bp_rows)))

\* create_daily_breakdown: the configuration it leaves and what it returns or raises
CreateDailyBreakdownResult(cfg, bp, dim, weekly_pattern, monthly_pattern, use_regression, regression_windows) ==
    IF ~bp.loaded \/ ~dim.loaded THEN [config |-> cfg, ret |-> Raise("ValueError")]
    ELSE Strict2(LAMBDA set, monthly_targets :
                     IF ~set.ret.ok THEN set
                     ELSE [config |-> set.config,
                           ret |-> BreakdownFrom(set.config, bp.rows, dim.rows, 1,
                                                 weekly_pattern, monthly_pattern,
                                                 use_regression, monthly_targets)],
                 IF WindowsGiven(use_regression, regression_windows)
                   THEN SetRegressionWindowsResult(cfg, regression_windows.val)
                   ELSE [config |-> cfg, ret |-> Ok(<<>>)],
                 IF use_regression THEN Some(GetMonthlyTargets(bp.rows)) ELSE None)

\* load_data: both tables are stored before they are validated
LoadDataResult(bp_rows, dim_rows) ==
    LET valid == ValidateDataCompatibility(bp_rows, dim_rows)
    IN  IF valid.ok THEN Ok(<<bp_rows, dim_rows>>) ELSE valid

(***************************************************************************)
(* Inputs of the model                                                     *)
(***************************************************************************)
MaxWeights == 3
MaxWeekdays == 3
MaxMonths == 3

\* monthly targets: the ratio of two of them is 1, 2 or 1/2, so that every
\* regression rate is decided by the clamp
Targets == {1, 2}

\* a row of the calendar file.  weekday is a further column of the file, which
\* read_csv keeps: the weekday of the day with Saturday = 0, in the calendar of
\* 1404, where 1 Farvardin is a Friday and the first six months have 31 days
DateRow(year, month, day) ==
    [ year |-> year, month |-> month,
      persian_date |-> year * 10000 + month * 100 + day,
      date_id |-> month * 100 + day,
      date_string |-> <<year, month, day>>,
      weekday |-> (6 + (month - 1) * 31 + (day - 1)) % 7 ]

\* the calendar table: months of three, two and three days, rows not in date order
DimDateTable ==
    << DateRow(1404, 1, 2), DateRow(1404, 1, 1), DateRow(1404, 1, 3),
       DateRow(1404, 2, 1), DateRow(1404, 2, 2),
       DateRow(1404, 3, 3), DateRow(1404, 3, 2), DateRow(1404, 3, 1) >>

\* the same calendar without the rows of month 2
DimDateTableWithoutMonth2 ==
    << DateRow(1404, 1, 2), DateRow(1404, 1, 1), DateRow(1404, 1, 3),
       DateRow(1404, 3, 3), DateRow(1404, 3, 2), DateRow(1404, 3, 1) >>

DimDateTables == { DimDateTable, DimDateTableWithoutMonth2 }

CalendarMonths == {1, 2}

TargetRow(year, month, line, target) ==
    [ year |-> year, month |-> month, line |-> line, metric |-> "sales",
      sub_metric |-> "gold", target |-> target, unit |-> "gram" ]

\* the (month, line) columns of the monthly-target tables, in the order of the
\* file; the last one is not in the order of the months
TableShapes ==
    { << <<1, "A">> >>,
      << <<1, "A">>, <<2, "A">> >>,
      << <<1, "A">>, <<2, "A">>, <<3, "A">> >>,
      << <<1, "A">>, <<1, "B">>, <<2, "A">> >>,
      << <<2, "A">>, <<1, "A">> >> }

BpTables ==
    UNION { { Seq1([i \in 1..Len(shape) |->
                       TargetRow(1404, shape[i][1], shape[i][2], t[i])], Len(shape)) :
                t \in [1..Len(shape) -> Targets] } : shape \in TableShapes }

WeeklyNames == {"default", "balanced", "business_focused", "salary_cycle", "custom"}
MonthlyNames == {"default", "balanced", "salary_cycle", "business_focused", "custom"}

\* the (weekly, monthly) pattern names of the calls that compute daily targets
PatternPairs ==
    { <<"default", "default">>, <<"balanced", "balanced">>,
      <<"custom", "salary_cycle">>, <<"business_focused", "custom">> }

WindowLists == { <<2>>, <<2, 7, 3>>, <<30, 7>>, <<2, 0>> }

\* the arguments of the calls of create_daily_breakdown
BreakdownArguments ==
    { [weekly_pattern |-> a[1], monthly_pattern |-> a[2], use_regression |-> a[3],
       regression_windows |-> a[4]] :
        a \in { <<"default", "default", FALSE, None>>,
                <<"balanced", "balanced", FALSE, None>>,
                <<"custom", "salary_cycle", FALSE, Some(<<2>>)>>,
                <<"default", "default", TRUE, None>>,
                <<"default", "default", TRUE, Some(<<2>>)>>,
                <<"business_focused", "custom", TRUE, Some(<<2, 7, 3>>)>>,
                <<"balanced", "balanced", TRUE, None>>,
                <<"custom", "default", TRUE, Some(<<>>)>> } }

GrowthRates == { Zero, Dec(12, 1000), Dec(5, 100) }

WeightValues == { Zero, Dec(1, 2), One, RInt(2) }
SmoothingFactors == { Zero, Dec(1, 10), Dec(1, 2), One }
WeightSeqs == UNION { [1..n -> WeightValues] : n \in 1..MaxWeights }
WeekdaySeqs ==
    { Seq1([i \in 1..n |-> (start + i - 1) % 7], n) : start \in 0..6, n \in 1..MaxWeekdays }
MonthLengths == {1, 2, 3, 29, 30, 31, 32, 33}
CurveLengths == {1, 2, 3, 10}
TargetHistories == UNION { [1..n -> Targets] : n \in 1..MaxMonths }

Call(op, args, ret) == [op |-> op, args |-> args, ret |-> ret]

(***************************************************************************)
(* The system: load_data and create_daily_breakdown on one system object   *)
(***************************************************************************)
Init ==
    /\ config = DefaultConfig
    /\ bp_data = NotLoaded
    /\ dim_date_data = NotLoaded
    /\ last = Call("init", <<>>, Ok(<<>>))

LoadData ==
    \E bp_rows \in BpTables, dim_rows \in DimDateTables :
        /\ bp_data' = Loaded(bp_rows)
        /\ dim_date_data' = Loaded(dim_rows)
        /\ last' = Call("load_data", <<>>, LoadDataResult(bp_rows, dim_rows))
        /\ UNCHANGED config

CreateDailyBreakdown ==
    \E args \in BreakdownArguments :
        \E r \in { CreateDailyBreakdownResult(config, bp_data, dim_date_data,
                                              args.weekly_pattern, args.monthly_pattern,
                                              args.use_regression,
                                              args.regression_windows) } :
            /\ config' = r.config
            /\ last' = Call("create_daily_breakdown", args, r.ret)
            /\ UNCHANGED <<bp_data, dim_date_data>>

Next == LoadData \/ CreateDailyBreakdown

Spec == Init /\ [][Next]_vars

(***************************************************************************)
(* The calculator: one call of a method on a configuration.  The initial   *)
(* states draw the configuration and the call with its arguments; the      *)
(* action of the method returns from it.                                   *)
(***************************************************************************)
\* configurations built by from_dict and then configured by set_regression_windows
CalcConfigs ==
    { SetRegressionWindowsResult(FromDict([growth_rate |-> r]), windows).config :
        r \in GrowthRates, windows \in WindowLists }

\* the optional (monthly_targets, current_month_index) arguments of a call
HistoryArguments ==
    { <<None, None>> } \cup
    { <<Some(h), Some(i)>> : h \in TargetHistories, i \in 0..(MaxMonths - 1) }

CalcCalls ==
    { Call("_smooth_weights", [weights |-> w, smoothing_factor |-> a], Pending) :
        w \in WeightSeqs, a \in SmoothingFactors }
    \cup
    { Call("apply_weekly_seasonality", [weekdays |-> w, pattern_name |-> n], Pending) :
        w \in WeekdaySeqs, n \in WeeklyNames }
    \cup
    { Call("apply_monthly_seasonality", [days_in_month |-> d, pattern_name |-> n], Pending) :
        d \in MonthLengths, n \in MonthlyNames }
    \cup
    { Call("apply_growth_curve", [days_in_month |-> d], Pending) : d \in CurveLengths }
    \cup
    { Call("calculate_regression_growth",
           [monthly_targets |-> h[1].val, current_month_index |-> h[2].val], Pending) :
        h \in { x \in HistoryArguments : x[1].some /\ x[2].val < Len(x[1].val) } }
    \cup
    { Call("calculate_daily_targets",
           [ monthly_target |-> t,
             month_dates |-> GetMonthDates(DimDateTable, 1404, m).val,
             weekly_pattern |-> p[1], monthly_pattern |-> p[2], use_regression |-> u,
             monthly_targets |-> h[1], current_month_index |-> h[2] ], Pending) :
        t \in Targets, m \in CalendarMonths, p \in PatternPairs, u \in BOOLEAN,
        h \in { x \in HistoryArguments : x[1].some => x[2].val < Len(x[1].val) } }

\* a list of n equal coefficients
ConstantList(value, n) == Seq1([i \in 1..n |-> value], n)

\* configurations with coefficient sets registered under the name "signed": sets
\* of zeros, of negative multipliers and of mixed signs
SignedWeeklyLists ==
    { ConstantList(Zero, 7), ConstantList(RNeg(Dec(1, 2)), 7),
      <<RInt(-4), One, One, One, One, One, One>> }
SignedMonthlyLists == { ConstantList(Zero, 31), ConstantList(RNeg(Dec(1, 2)), 31) }

SignedConfigs ==
    { SetMonthlyCoefficientsResult(
          SetWeeklyCoefficientsResult(FromDict([growth_rate |-> r]), w, "signed").config,
          m, "signed").config :
        r \in { Zero, Dec(12, 1000) }, w \in SignedWeeklyLists, m \in SignedMonthlyLists }

SignedTargets == {0, 2}

SignedCalls ==
    { Call("calculate_daily_targets",
           [ monthly_target |-> t,
             month_dates |-> GetMonthDates(DimDateTable, 1404, m).val,
             weekly_pattern |-> p[1], monthly_pattern |-> p[2], use_regression |-> FALSE,
             monthly_targets |-> None, current_month_index |-> None ], Pending) :
        t \in SignedTargets, m \in CalendarMonths,
        p \in {"signed", "default"} \X {"signed", "default"} }

\* the flat case: no growth, the balanced sets, fixed mode; months of 2, 3 and 30 days
FlatConfigs == { cfg \in CalcConfigs : cfg.growth_rate = Zero }
FlatLengths == {2, 3, 30}
FlatTargets == {1, 3000000}
FlatMonth(days_in_month) ==
    Seq1([day \in 1..days_in_month |-> DateRow(1404, 7, day)], days_in_month)

FlatCalls ==
    { Call("calculate_daily_targets",
           [ monthly_target |-> t, month_dates |-> FlatMonth(d),
             weekly_pattern |-> "balanced", monthly_pattern |-> "balanced",
             use_regression |-> FALSE,
             monthly_targets |-> None, current_month_index |-> None ], Pending) :
        t \in FlatTargets, d \in FlatLengths }

\* trends: histories that rise or fall by a steady ratio, under configurations
\* whose default growth rate may lie outside the bounds and whose windows may
\* include the size 1
TrendRates == { Dec(12, 1000), Dec(1, 10) }
TrendWindowLists == { <<2>>, <<2, 3>>, <<1>>, <<1, 2>> }
TrendConfigs ==
    { SetRegressionWindowsResult(FromDict([growth_rate |-> r]), windows).config :
        r \in TrendRates, windows \in TrendWindowLists }

TrendHistories ==
    { <<1000000, 1200000>>, <<100, 101>>, <<100, 102>>, <<102, 100>>,
      <<1600, 1640, 1681>>, <<625, 650, 676>>, <<676, 650, 625>>, <<625, 676, 676>> }

TrendCalls ==
    { Call("calculate_regression_growth",
           [monthly_targets |-> x[1], current_month_index |-> x[2]], Pending) :
        x \in { y \in TrendHistories \X (0..2) : y[2] < Len(y[1]) } }

InitCalc ==
    /\ \/ config \in CalcConfigs /\ last \in CalcCalls
       \/ config \in SignedConfigs /\ last \in SignedCalls
       \/ config \in FlatConfigs /\ last \in FlatCalls
       \/ config \in TrendConfigs /\ last \in TrendCalls
    /\ bp_data = NotLoaded
    /\ dim_date_data = NotLoaded

Returns(op, ret) ==
    /\ last.op = op
    /\ last.ret = Pending
    /\ last' = [last EXCEPT !.ret = ret]
    /\ UNCHANGED <<config, bp_data, dim_date_data>>

SmoothWeightsCall ==
    Returns("_smooth_weights", SmoothWeights(last.args.weights, last.args.smoothing_factor))

ApplyWeeklySeasonalityCall ==
    Returns("apply_weekly_seasonality",
            ApplyWeeklySeasonality(config, last.args.weekdays, last.args.pattern_name))

ApplyMonthlySeasonalityCall ==
    Returns("apply_monthly_seasonality",
            ApplyMonthlySeasonality(config, last.args.days_in_month, last.args.pattern_name))

ApplyGrowthCurveCall ==
    Returns("apply_growth_curve", ApplyGrowthCurve(config, last.args.days_in_month))

CalculateRegressionGrowthCall ==
    Returns("calculate_regression_growth",
            Ok(CalculateRegressionGrowth(config, last.args.monthly_targets,
                                         last.args.current_month_index)))

CalculateDailyTargetsCall ==
    Returns("calculate_daily_targets",
            CalculateDailyTargets(config, RInt(last.args.monthly_target),
                                  last.args.month_dates, last.args.weekly_pattern,
                                  last.args.monthly_pattern, last.args.use_regression,
                                  last.args.monthly_targets, last.args.current_month_index))

NextCalc ==
    \/ SmoothWeightsCall
    \/ ApplyWeeklySeasonalityCall
    \/ ApplyMonthlySeasonalityCall
    \/ ApplyGrowthCurveCall
    \/ CalculateRegressionGrowthCall
    \/ CalculateDailyTargetsCall

SpecCalc == InitCalc /\ [][NextCalc]_vars

(***************************************************************************)
(* The configuration: construction, the setters and from_dict on one       *)
(* configuration reference.  from_dict is a class method: it returns a new *)
(* configuration, which the reference then holds.                          *)
(***************************************************************************)
\* coefficient lists of 6, 7 and 8 entries, and of 28, 29, 31 and 32 entries
WeeklyLists ==
    { ConstantList(One, n) : n \in {6, 7, 8} } \cup { ConstantList(Dec(1, 2), 7) }
MonthlyLists ==
    { ConstantList(One, n) : n \in {28, 29, 31, 32} } \cup { ConstantList(Dec(1, 2), 30) }

SetterNames == {"custom", "default"}

\* the dictionaries from_dict is called with; a key that is no attribute is ignored
ConfigDicts ==
    { [growth_rate |-> Zero],
      [comment |-> "none"],
      [weekly_coefficients |-> [default |-> ConstantList(One, 6)]],
      [monthly_coefficients |-> [default |-> ConstantList(One, 32)]],
      [regression_windows |-> <<2, 7, 0>>] }

InitConfig ==
    /\ config = DefaultConfig
    /\ bp_data = NotLoaded
    /\ dim_date_data = NotLoaded
    /\ last = Call("init", <<>>, Ok(<<>>))

Configured(op, args, r) ==
    /\ config' = r.config
    /\ last' = Call(op, args, r.ret)
    /\ UNCHANGED <<bp_data, dim_date_data>>

SetWeeklyCoefficientsCall ==
    \E coefficients \in WeeklyLists, pattern_name \in SetterNames :
        Configured("set_weekly_coefficients",
                   [coefficients |-> coefficients, pattern_name |-> pattern_name],
                   SetWeeklyCoefficientsResult(config, coefficients, pattern_name))

SetMonthlyCoefficientsCall ==
    \E coefficients \in MonthlyLists, pattern_name \in SetterNames :
        Configured("set_monthly_coefficients",
                   [coefficients |-> coefficients, pattern_name |-> pattern_name],
                   SetMonthlyCoefficientsResult(config, coefficients, pattern_name))

SetRegressionWindowsCall ==
    \E windows \in WindowLists :
        Configured("set_regression_windows", [windows |-> windows],
                   SetRegressionWindowsResult(config, windows))

FromDictCall ==
    \E config_dict \in ConfigDicts :
        Configured("from_dict", [config_dict |-> config_dict],
                   [config |-> FromDict(config_dict), ret |-> Ok(<<>>)])

NextConfig ==
    \/ SetWeeklyCoefficientsCall
    \/ SetMonthlyCoefficientsCall
    \/ SetRegressionWindowsCall
    \/ FromDictCall

SpecConfig == InitConfig /\ [][NextConfig]_vars

(***************************************************************************)
(* Properties of the calculator (checked under SpecCalc)                   *)
(***************************************************************************)
Returned(op) == last.op = op /\ last.ret # Pending

\* C1: whenever calculate_daily_targets returns (the final weights exist and their
\* sum is not zero), in fixed or regression mode and for any pattern names, the
\* daily targets sum to the monthly target.
C1_DailyTargetsSumToMonthlyTarget ==
    (Returned("calculate_daily_targets") /\ last.ret.ok)
        => RSum(last.ret.val) = RInt(last.args.monthly_target)

\* a regression-mode call with an unregistered weekly name returned three unequal
\* daily targets
C1_Witness ==
    /\ Returned("calculate_daily_targets") /\ last.ret.ok
    /\ last.args.use_regression /\ last.args.monthly_targets.some
    /\ last.args.weekly_pattern = "custom"
    /\ Len(last.ret.val) = 3
    /\ last.ret.val[1] # last.ret.val[3]
    /\ last.args.monthly_target = 2

\* C2: _smooth_weights on a sequence of exactly one weight returns that sequence
\* unchanged and does not fail.
C2_SingleWeightUnchanged ==
    (Returned("_smooth_weights") /\ Len(last.args.weights) = 1)
        => (last.ret.ok /\ last.ret.val = last.args.weights)

\* C3: the fixed-shape growth curve is continuous at p = 0.3 and at p = 0.7: for the
\* growth rate of every configuration apply_growth_curve is called on, the first and
\* the second segment formula agree at 0.3, the second and the third at 0.7.
C3_GrowthCurveContinuous ==
    Returned("apply_growth_curve") =>
        /\ GrowthSegment1(config.growth_rate, Dec(3, 10))
             = GrowthSegment2(config.growth_rate, Dec(3, 10))
        /\ GrowthSegment2(config.growth_rate, Dec(7, 10))
             = GrowthSegment3(config.growth_rate, Dec(7, 10))

\* C4: when only some of several configured windows have sufficient history, the
\* rate returned by calculate_regression_growth is the average of the collected
\* rates, each weighted by the size of the window it was computed from.
C4_RatesWeightedByOwnWindow ==
    LET rates == CollectedRates(config, last.args.monthly_targets,
                                last.args.current_month_index, 1)
        windows == CollectedWindows(config, last.args.monthly_targets,
                                    last.args.current_month_index, 1)
    IN  (/\ Returned("calculate_regression_growth")
         /\ Len(last.args.monthly_targets) >= 2
         /\ Len(config.regression_windows) > 1
         /\ rates # <<>>
         /\ Len(rates) < Len(config.regression_windows))
            => last.ret.val = WeightedAverage(rates, windows)

\* C10: for a pattern name that is not a key of the weekly (monthly) registry,
\* apply_weekly_seasonality (apply_monthly_seasonality) returns what it returns
\* for the name "default" on the same input.
C10_UnknownNameMatchesDefault ==
    /\ (Returned("apply_weekly_seasonality")
          /\ last.args.pattern_name \notin DOMAIN config.weekly_coefficients)
        => last.ret = ApplyWeeklySeasonality(config, last.args.weekdays, "default")
    /\ (Returned("apply_monthly_seasonality")
          /\ last.args.pattern_name \notin DOMAIN config.monthly_coefficients)
        => last.ret = ApplyMonthlySeasonality(config, last.args.days_in_month, "default")

\* apply_weekly_seasonality returned three weights for an unregistered name
C10_Witness ==
    /\ Returned("apply_weekly_seasonality") /\ last.ret.ok
    /\ last.args.pattern_name = "custom"
    /\ "custom" \notin DOMAIN config.weekly_coefficients
    /\ Len(last.ret.val) = 3
    /\ last.ret.val[1] # last.ret.val[2]

(***************************************************************************)
(* Properties of the system (checked under Spec)                           *)
(***************************************************************************)
Created == last.op = "create_daily_breakdown" /\ last.ret.ok

\* the monthly_targets argument create_daily_breakdown passes to the calculator
PassedMonthlyTargets(bp_rows, use_regression) ==
    IF use_regression THEN Some(GetMonthlyTargets(bp_rows)) ELSE None

\* the number of daily records of the rows before position idx
RECURSIVE RowOffset(_, _, _)
RowOffset(bp_rows, dim_rows, idx) ==
    IF idx = 1 THEN 0
    ELSE RowOffset(bp_rows, dim_rows, idx - 1)
         + Len(GetMonthDates(dim_rows, bp_rows[idx - 1].year, bp_rows[idx - 1].month).val)

\* the daily records the last call returned for the row at position idx
RecordsOfRow(idx) ==
    LET offset == RowOffset(bp_data.rows, dim_date_data.rows, idx)
        days == Len(GetMonthDates(dim_date_data.rows, bp_data.rows[idx].year,
                                  bp_data.rows[idx].month).val)
    IN  SubSeq(last.ret.val, offset + 1, offset + days)

DailyTargetsOf(records) == Seq1([i \in 1..Len(records) |-> records[i].daily_target],
                                Len(records))

\* the tables that differ from bp_rows in the target of one row other than idx
OtherTargetChanged(bp_rows, idx) ==
    { [bp_rows EXCEPT ![j].target = t] : j \in (1..Len(bp_rows)) \ {idx}, t \in Targets }

\* the daily targets of row idx when the last call is made on the table bp_rows
RowTargetsOn(bp_rows, idx) ==
    DailyTargetsOf(RowRecords(config, bp_rows, dim_date_data.rows, idx,
                              last.args.weekly_pattern, last.args.monthly_pattern,
                              last.args.use_regression,
                              PassedMonthlyTargets(bp_rows, last.args.use_regression)).val)

\* C5: a call of create_daily_breakdown leaves the configuration unchanged.
C5_CreateLeavesConfigUnchanged ==
    [][last'.op = "create_daily_breakdown" => config' = config]_vars

\* C6 as stated: in fixed and in regression mode, changing the target of another
\* row leaves the daily targets of a row unchanged.
C6_RowsIndependent ==
    Created =>
        \A idx \in 1..Len(bp_data.rows) :
            \A other \in OtherTargetChanged(bp_data.rows, idx) :
                RowTargetsOn(other, idx) = DailyTargetsOf(RecordsOfRow(idx))

\* C6 amended: in fixed mode, changing the target of another row leaves the daily
\* targets of a row unchanged.
C6_RowsIndependentFixedMode ==
    (Created /\ ~last.args.use_regression) =>
        \A idx \in 1..Len(bp_data.rows) :
            \A other \in OtherTargetChanged(bp_data.rows, idx) :
                RowTargetsOn(other, idx) = DailyTargetsOf(RecordsOfRow(idx))

\* a fixed-mode call returned the records of a table of three rows with unequal targets
C6_Witness ==
    /\ Created /\ ~last.args.use_regression
    /\ Len(bp_data.rows) = 3
    /\ bp_data.rows[1].target # bp_data.rows[2].target
    /\ Len(RecordsOfRow(2)) = 2
    /\ OtherTargetChanged(bp_data.rows, 2) # {}

\* C7: the growth_rate of every daily record is the growth rate the growth curve
\* of its row was built from.
C7_RecordedGrowthRateIsUsed ==
    Created =>
        \A idx \in 1..Len(bp_data.rows) :
            \A k \in 1..Len(RecordsOfRow(idx)) :
                RecordsOfRow(idx)[k].growth_rate
                    = GrowthRateUsed(config, last.args.use_regression,
                                     PassedMonthlyTargets(bp_data.rows,
                                                          last.args.use_regression),
                                     Some(idx - 1))

\* the regression estimate of row idx fell back to the default growth rate
FellBack(idx) ==
    \/ Len(bp_data.rows) < 2
    \/ CollectedRates(config, GetMonthlyTargets(bp_data.rows), idx - 1, 1) = <<>>

\* the method and provenance fields of a daily record
Provenance(record) ==
    << record.distribution_method, record.growth_rate, record.weekly_smoothing,
       record.monthly_smoothing, record.growth_smoothing, record.weekly_pattern,
       record.monthly_pattern, record.use_regression, record.regression_windows >>

\* C8: in regression mode the provenance fields of the records of a row whose rate
\* fell back to the default differ from those of a row whose rate was estimated.
C8_FallbackObservable ==
    (Created /\ last.args.use_regression) =>
        \A i, j \in 1..Len(bp_data.rows) :
            (FellBack(i) /\ ~FellBack(j))
                => Provenance(RecordsOfRow(i)[1]) # Provenance(RecordsOfRow(j)[1])

\* the name of the coefficient set a pattern name selects
UsedName(registry, pattern_name) ==
    IF pattern_name \in DOMAIN registry THEN pattern_name ELSE "default"

\* C9: the weekly and monthly pattern names of every daily record name the
\* coefficient sets the record was computed with.
C9_RecordedPatternsAreUsed ==
    Created =>
        \A k \in 1..Len(last.ret.val) :
            /\ last.ret.val[k].weekly_pattern
                 = UsedName(config.weekly_coefficients, last.args.weekly_pattern)
            /\ last.ret.val[k].monthly_pattern
                 = UsedName(config.monthly_coefficients, last.args.monthly_pattern)

(***************************************************************************)
(* The regression fallback (checked under SpecCalc)                        *)
(***************************************************************************)
MinWindow(windows) ==
    CHOOSE w \in { windows[j] : j \in 1..Len(windows) } :
        \A j \in 1..Len(windows) : w <= windows[j]

\* the history is shorter than every window: current_month_index + 1 < min(windows)
TooShortForEveryWindow ==
    /\ config.regression_windows # <<>>
    /\ last.args.current_month_index + 1 < MinWindow(config.regression_windows)

\* C11: calculate_regression_growth returns exactly config.growth_rate whenever
\* current_month_index + 1 is smaller than the smallest regression window.
C11_ShortHistoryReturnsConfiguredRate ==
    (Returned("calculate_regression_growth") /\ TooShortForEveryWindow)
        => last.ret = Ok(config.growth_rate)

\* a history of at least two months, too short for every window, and a growth
\* rate that is not the default one
C11_Witness ==
    /\ Returned("calculate_regression_growth")
    /\ TooShortForEveryWindow
    /\ Len(last.args.monthly_targets) >= 2
    /\ config.growth_rate = Dec(5, 100)
    /\ last.ret = Ok(Dec(5, 100))

(***************************************************************************)
(* Properties of the configuration (checked under SpecConfig)              *)
(***************************************************************************)

\* C12: after any sequence of configuration operations every registered weekly
\* set has exactly 7 entries and every registered monthly set has 29 to 31.
\* from_dict assigns the dictionaries it is given without testing a length.
C12_RegisteredSetsHaveValidLengths ==
    /\ \A name \in DOMAIN config.weekly_coefficients :
           Len(config.weekly_coefficients[name]) = 7
    /\ \A name \in DOMAIN config.monthly_coefficients :
           /\ Len(config.monthly_coefficients[name]) >= 29
           /\ Len(config.monthly_coefficients[name]) <= 31

\* the registry `after` is `before` with `coefficients` under `pattern_name`
\* and every other set as it was
RegisteredOnly(before, after, pattern_name, coefficients) ==
    /\ DOMAIN after = DOMAIN before \cup {pattern_name}
    /\ after[pattern_name] = coefficients
    /\ \A name \in DOMAIN before \ {pattern_name} : after[name] = before[name]

WeeklySetterStep ==
    IF Len(last'.args.coefficients) # 7
      THEN /\ ~last'.ret.ok
           /\ config' = config
      ELSE /\ last'.ret.ok
           /\ RegisteredOnly(config.weekly_coefficients, config'.weekly_coefficients,
                             last'.args.pattern_name, last'.args.coefficients)
           /\ config'.monthly_coefficients = config.monthly_coefficients

MonthlySetterStep ==
    IF Len(last'.args.coefficients) < 29 \/ Len(last'.args.coefficients) > 31
      THEN /\ ~last'.ret.ok
           /\ config' = config
      ELSE /\ last'.ret.ok
           /\ RegisteredOnly(config.monthly_coefficients, config'.monthly_coefficients,
                             last'.args.pattern_name, last'.args.coefficients)
           /\ config'.weekly_coefficients = config.weekly_coefficients

\* C13: set_weekly_coefficients with a list that has not 7 entries, and
\* set_monthly_coefficients with a list of fewer than 29 or more than 31, raise an
\* error and leave every registered set unchanged; with a valid length they
\* register the list under the given name and change no other set.
C13_SettersValidateAndRegister ==
    [][ /\ last'.op = "set_weekly_coefficients" => WeeklySetterStep
        /\ last'.op = "set_monthly_coefficients" => MonthlySetterStep ]_vars

\* a valid monthly list was registered under a new name beside a weekly set
\* registered earlier, after a weekly list of a wrong length was refused
C13_Witness ==
    /\ last.op = "set_monthly_coefficients"
    /\ last.ret.ok
    /\ last.args.pattern_name = "custom"
    /\ Len(last.args.coefficients) = 30
    /\ config.monthly_coefficients["custom"] = last.args.coefficients
    /\ "custom" \in DOMAIN config.weekly_coefficients
    /\ config.weekly_coefficients["custom"] = ConstantList(Dec(1, 2), 7)

PositiveDescending(windows) ==
    /\ \A j \in 1..Len(windows) : windows[j] > 0
    /\ \A j \in 1..(Len(windows) - 1) : windows[j] >= windows[j + 1]

\* set_regression_windows refuses a list with a window that is not positive and
\* otherwise stores the given windows, duplicates kept, in descending order
WindowsSetterStep ==
    IF \E j \in 1..Len(last'.args.windows) : last'.args.windows[j] <= 0
      THEN /\ ~last'.ret.ok
           /\ config' = config
      ELSE /\ last'.ret.ok
           /\ config'.regression_windows = SortedDesc(last'.args.windows)
           /\ PositiveDescending(config'.regression_windows)

WindowsSetterValidatesAndSorts ==
    [][ last'.op = "set_regression_windows" => WindowsSetterStep ]_vars

\* C14: set_regression_windows refuses a list with a non-positive window and
\* otherwise stores the windows in descending order; after any sequence of
\* configuration operations the stored windows are positive integers in
\* descending order.  The setter does so (WindowsSetterValidatesAndSorts); from_dict
\* stores the list it is given as it is.
C14_StoredWindowsPositiveDescending ==
    PositiveDescending(config.regression_windows)

(***************************************************************************)
(* Signs and degenerate weights in calculate_daily_targets (SpecCalc)      *)
(***************************************************************************)

\* the three weight series of the call of calculate_daily_targets in `last`,
\* each a value or the exception its method raised
GrowthSeriesOfCall ==
    IF UsesRegression(last.args.use_regression, last.args.monthly_targets,
                      last.args.current_month_index)
      THEN ApplyRegressionGrowthCurve(config, Len(last.args.month_dates),
                                      last.args.monthly_targets.val,
                                      last.args.current_month_index.val)
      ELSE ApplyGrowthCurve(config, Len(last.args.month_dates))
WeeklySeriesOfCall ==
    ApplyWeeklySeasonality(config, Weekdays(last.args.month_dates), last.args.weekly_pattern)
MonthlySeriesOfCall ==
    ApplyMonthlySeasonality(config, Len(last.args.month_dates), last.args.monthly_pattern)

NonNegative(series) ==
    series.ok /\ \A i \in 1..Len(series.val) : RLe(Zero, series.val[i])

NonNegativeInputs ==
    /\ last.args.monthly_target >= 0
    /\ NonNegative(GrowthSeriesOfCall)
    /\ NonNegative(WeeklySeriesOfCall)
    /\ NonNegative(MonthlySeriesOfCall)

\* C15: if the growth, weekly and monthly weight series are all non-negative and
\* the monthly target is non-negative, every returned daily target is non-negative.
C15_NonNegativeWeightsGiveNonNegativeTargets ==
    (Returned("calculate_daily_targets") /\ last.ret.ok /\ NonNegativeInputs)
        => \A k \in 1..Len(last.ret.val) : RLe(Zero, last.ret.val[k])

\* weekly and monthly sets of zeros: the series are non-negative, some weights are
\* zero, and the targets returned for a positive monthly target are positive
C15_Witness ==
    /\ Returned("calculate_daily_targets") /\ last.ret.ok /\ NonNegativeInputs
    /\ last.args.weekly_pattern = "signed" /\ last.args.monthly_pattern = "signed"
    /\ \A i \in 1..Len(WeeklySeriesOfCall.val) : WeeklySeriesOfCall.val[i] = Zero
    /\ last.args.monthly_target = 2
    /\ Len(last.ret.val) = 3
    /\ \A k \in 1..3 : RLt(Zero, last.ret.val[k])

\* with a weekly set of mixed signs a daily target is negative
NegativeTargetReturned ==
    /\ Returned("calculate_daily_targets") /\ last.ret.ok
    /\ \E k \in 1..Len(last.ret.val) : RLt(last.ret.val[k], Zero)

\* steps 4 and 5: the smoothed combined weights of three weight series
FinalWeights(curves) ==
    SmoothWeights(CombinedWeights(curves[1].val, curves[2].val, curves[3].val), Dec(1, 10))

SumsToZero(final_weights) ==
    final_weights.ok /\ final_weights.val # <<>> /\ RSum(final_weights.val) = Zero

\* the call in `last` came to step 6 with final weights that sum to zero
FinalWeightsSumToZero ==
    Strict1(LAMBDA curves :
                /\ curves[1].ok /\ curves[2].ok /\ curves[3].ok
                /\ Strict1(LAMBDA final_weights : SumsToZero(final_weights),
                           FinalWeights(curves)),
            <<GrowthSeriesOfCall, WeeklySeriesOfCall, MonthlySeriesOfCall>>)

\* C16: when the final smoothed combined weights sum to zero,
\* calculate_daily_targets returns no finite daily targets: the division by the
\* sum fails (ZeroDivisionError for a Python number as the monthly target; a
\* numpy number gives inf or nan there), and no value is put in its place.
C16_ZeroSumDoesNotReturnTargets ==
    (Returned("calculate_daily_targets") /\ FinalWeightsSumToZero)
        => last.ret = Raise("ZeroDivisionError")

\* no growth and sets of -1/2: every combined weight is (1 - 1/2 - 1/2) / 3 = 0
C16_Witness ==
    /\ Returned("calculate_daily_targets") /\ FinalWeightsSumToZero
    /\ config.growth_rate = Zero
    /\ last.args.weekly_pattern = "signed" /\ last.args.monthly_pattern = "signed"
    /\ last.args.monthly_target = 2
    /\ Len(last.args.month_dates) = 3
    /\ last.ret = Raise("ZeroDivisionError")

(***************************************************************************)
(* Missing data (checked under Spec)                                       *)
(***************************************************************************)

\* a row of the stored business plan names a month with no calendar days
RowWithoutCalendarDays ==
    \E i \in 1..Len(bp_data.rows) :
        SelectMonth(dim_date_data.rows, bp_data.rows[i].year, bp_data.rows[i].month) = <<>>

DataNotLoaded == ~bp_data.loaded \/ ~dim_date_data.loaded

\* C17: create_daily_breakdown before the data is loaded, or with a row of the
\* business plan that has no calendar days, fails with an error and returns no
\* table, not even the records of the rows before; load_data fails when a
\* (year, month) of the business plan is absent from the calendar.
C17_MissingDataFails ==
    /\ (last.op = "create_daily_breakdown" /\ (DataNotLoaded \/ RowWithoutCalendarDays))
          => last.ret = Raise("ValueError")
    /\ (last.op = "load_data" /\ RowWithoutCalendarDays)
          => last.ret = Raise("ValueError")

\* the stored plan has month 1 and then month 2, the calendar has no month 2:
\* load_data failed and left both tables stored, and create_daily_breakdown then
\* failed on the second row
C17_Witness ==
    /\ last.op = "create_daily_breakdown"
    /\ last.ret = Raise("ValueError")
    /\ ~DataNotLoaded
    /\ Len(bp_data.rows) >= 2
    /\ SelectMonth(dim_date_data.rows, 1404, bp_data.rows[1].month) # <<>>
    /\ SelectMonth(dim_date_data.rows, 1404, bp_data.rows[2].month) = <<>>
    /\ ~last.args.use_regression

(***************************************************************************)
(* The smoothing primitive at its two extreme factors (SpecCalc)           *)
(***************************************************************************)
Smoothed == Returned("_smooth_weights") /\ Len(last.args.weights) >= 2

\* C18: _smooth_weights(weights, 0) returns weights itself for every sequence of
\* at least two weights.
C18_FactorZeroIsIdentity ==
    (Smoothed /\ last.args.smoothing_factor = Zero)
        => last.ret = Ok(last.args.weights)

\* three unequal weights came back as they were
C18_Witness ==
    /\ Smoothed /\ last.args.smoothing_factor = Zero
    /\ last.args.weights = <<Dec(1, 2), RInt(2), Zero>>
    /\ last.ret = Ok(<<Dec(1, 2), RInt(2), Zero>>)

RAbs(x) == RMax(x, RNeg(x))

\* the size of the step from the weight at j to the next one
Step(weights, j) == RAbs(RSub(weights[j + 1], weights[j]))

\* no step of `after` is larger than the largest step of `before`
NoLargerStep(before, after) ==
    \A j \in 1..(Len(after) - 1) :
        \E k \in 1..(Len(before) - 1) : RLe(Step(after, j), Step(before, k))

FlatCase ==
    /\ Returned("calculate_daily_targets")
    /\ config.growth_rate = Zero
    /\ last.args.weekly_pattern = "balanced" /\ last.args.monthly_pattern = "balanced"
    /\ ~UsesRegression(last.args.use_regression, last.args.monthly_targets,
                       last.args.current_month_index)
    /\ Len(last.args.month_dates) >= 2

\* C20: in the flat case a month of D >= 2 days with the monthly target T gets D
\* daily targets of T / D each: 30 targets of 100,000 for 3,000,000 in 30 days.
C20_FlatCaseIsUniform ==
    FlatCase
        => /\ last.ret.ok
           /\ Len(last.ret.val) = Len(last.args.month_dates)
           /\ \A k \in 1..Len(last.ret.val) :
                  last.ret.val[k] = RDiv(RInt(last.args.monthly_target),
                                         RInt(Len(last.args.month_dates)))

C20_Witness ==
    /\ FlatCase
    /\ last.args.monthly_target = 3000000
    /\ Len(last.args.month_dates) = 30
    /\ last.ret.ok
    /\ Len(last.ret.val) = 30
    /\ \A k \in 1..30 : last.ret.val[k] = RInt(100000)


(***************************************************************************)
(* Regression over trends (checked under SpecCalc)                         *)
(***************************************************************************)
\* max(min_growth_rate, min(max_growth_rate, rate))
Clamped(cfg, rate) == RMax(cfg.min_growth_rate, RMin(cfg.max_growth_rate, rate))

WithinBounds(cfg, rate) == RLe(cfg.min_growth_rate, rate) /\ RLe(rate, cfg.max_growth_rate)

\* a returned call with the single window of size 2 and a month before the current one
TwoPointCase ==
    /\ Returned("calculate_regression_growth")
    /\ config.regression_windows = <<2>>
    /\ last.args.current_month_index >= 1
    /\ last.args.current_month_index < Len(last.args.monthly_targets)

\* second / first - 1 over the two months that end at the current one
TwoPointRate ==
    RSub(RDiv(RInt(last.args.monthly_targets[last.args.current_month_index + 1]),
              RInt(last.args.monthly_targets[last.args.current_month_index])),
         One)

\* C21: with the single window of size 2, calculate_regression_growth returns
\* (second / first) - 1 of the two months ending at the current one, clamped to
\* [min_growth_rate, max_growth_rate]; for the totals [1000000, 1200000] and the
\* index 1 the rate is strictly positive and within the bounds.
C21_TwoPointRegression ==
    TwoPointCase =>
        /\ last.ret = Ok(Clamped(config, TwoPointRate))
        /\ (last.args.monthly_targets = <<1000000, 1200000>>
              => RLt(Zero, last.ret.val) /\ WithinBounds(config, last.ret.val))

\* the totals [1000000, 1200000] at index 1: the rate of 20 percent is clamped to
\* the upper bound
C21_Witness ==
    /\ TwoPointCase
    /\ last.args.monthly_targets = <<1000000, 1200000>>
    /\ last.args.current_month_index = 1
    /\ last.ret = Ok(Dec(5, 100))

\* the totals [100, 102]: the rate of 2 percent lies between the bounds
UnclampedTwoPointRate ==
    /\ TwoPointCase
    /\ last.args.monthly_targets = <<100, 102>>
    /\ last.ret = Ok(Dec(2, 100))

\* every history the calls are drawn from
AllHistories == TargetHistories \cup TrendHistories

\* higher has the same length as lower and a higher ratio from each month to the
\* next: higher[i+1] / higher[i] > lower[i+1] / lower[i]
RatioHigher(lower, higher) ==
    /\ Len(higher) = Len(lower)
    /\ \A i \in 1..(Len(lower) - 1) :
           RLt(Dec(lower[i + 1], lower[i]), Dec(higher[i + 1], higher[i]))

\* C22: for the same configuration and index, a history whose ratio from each
\* month to the next is higher than that of the history of the call gets a rate
\* that is at least the returned one.
C22_RateMonotonicInTrend ==
    Returned("calculate_regression_growth") =>
        \A higher \in AllHistories :
            RatioHigher(last.args.monthly_targets, higher)
                => RLe(last.ret.val,
                       CalculateRegressionGrowth(config, higher,
                                                 last.args.current_month_index))

\* 2.5 percent a month over the windows 3 and 2, and a history of 4 percent a
\* month that gets the higher rate
C22_Witness ==
    /\ Returned("calculate_regression_growth")
    /\ config.regression_windows = <<3, 2>>
    /\ last.args.monthly_targets = <<1600, 1640, 1681>>
    /\ last.args.current_month_index = 2
    /\ RatioHigher(last.args.monthly_targets, <<625, 650, 676>>)
    /\ last.ret = Ok(Dec(25, 1000))
    /\ CalculateRegressionGrowth(config, <<625, 650, 676>>, 2) = Dec(4, 100)

(***************************************************************************)
(* The current month of a row (checked under Spec)                         *)
(***************************************************************************)
\* C23: in regression mode, for every row of the monthly-target table, the index
\* passed as current_month_index is the position of the row's own target in the
\* monthly_targets passed with it, whatever the order of the rows in the table.
C23_IndexIdentifiesOwnTotal ==
    (Created /\ last.args.use_regression) =>
        \A idx \in 1..Len(bp_data.rows) :
            PassedMonthlyTargets(bp_data.rows, TRUE).val[IndexLabel(idx) + 1]
                = RowMonthlyTarget(bp_data.rows, idx)

(***************************************************************************)
(* The weekday of a day (checked under SpecCalc)                           *)
(***************************************************************************)
\* C24: the weekday index calculate_daily_targets uses for each day of the month
\* is the weekday the calendar table gives for that day.
C24_WeekdayFromCalendarTable ==
    Returned("calculate_daily_targets") =>
        \A i \in 1..Len(last.args.month_dates) :
            Weekdays(last.args.month_dates)[i] = last.args.month_dates[i].weekday

(***************************************************************************)
(* The bounds of the regression rate (checked under SpecCalc)              *)
(***************************************************************************)
\* some configured window has sufficient history ending at the current month
SomeWindowHasHistory ==
    \E j \in 1..Len(config.regression_windows) :
        last.args.current_month_index >= config.regression_windows[j] - 1

\* C25: whenever some configured window W has current_month_index >= W - 1, the
\* rate calculate_regression_growth returns lies in [min_growth_rate,
\* max_growth_rate], whatever the configured default growth rate and the positive
\* window sizes.
C25_RateWithinBounds ==
    (Returned("calculate_regression_growth") /\ SomeWindowHasHistory)
        => WithinBounds(config, last.ret.val)

(***************************************************************************)
(* The smoothing primitive at every factor (checked under SpecCalc)        *)
(***************************************************************************)
\* the positions next to i that exist, i included
Neighbourhood(weights, i) == { j \in {i - 1, i, i + 1} : j >= 1 /\ j <= Len(weights) }

\* the arithmetic mean of the weights at the positions of a set
RECURSIVE SumOver(_, _)
SumOver(weights, positions) ==
    IF positions = {} THEN Zero
    ELSE LET j == CHOOSE x \in positions : TRUE
         IN  RAdd(weights[j], SumOver(weights, positions \ {j}))

MeanOver(weights, positions) == RDiv(SumOver(weights, positions), RInt(Cardinality(positions)))

\* weights[i] * (1 - a) + mean of the neighbourhood * a
Blend(weights, a, i) ==
    RAdd(RMul(weights[i], RSub(One, a)),
         RMul(MeanOver(weights, Neighbourhood(weights, i)), a))

\* C26: for at least two weights and a smoothing factor a in [0, 1], _smooth_weights
\* returns as many weights as it was given, the i-th being
\* input[i] * (1 - a) + avg[i] * a, where avg[i] is the mean of input[i] and its
\* neighbours (two weights at the ends, three inside), and it leaves its input as
\* it was.
C26_SmoothingBlendsLocalMeans ==
    [][(last.op = "_smooth_weights" /\ last.ret = Pending /\ Len(last.args.weights) >= 2)
         => /\ last'.args = last.args
            /\ last'.ret.ok
            /\ Len(last'.ret.val) = Len(last.args.weights)
            /\ \A i \in 1..Len(last.args.weights) :
                   last'.ret.val[i] = Blend(last.args.weights, last.args.smoothing_factor, i)]_vars

\* three unequal weights at the factor 1/2: the means 5/4, 5/6, 1 are blended in
C26_Witness ==
    /\ Smoothed /\ last.args.smoothing_factor = Dec(1, 2)
    /\ last.args.weights = <<Dec(1, 2), RInt(2), Zero>>
    /\ last.ret = Ok(<<Dec(7, 8), Dec(17, 12), Dec(1, 2)>>)

(***************************************************************************)
(* The daily targets of a month (checked under SpecCalc)                   *)
(***************************************************************************)
\* (growth[i] + weekly[i] + monthly[i]) / 3 for every day
MeanOfThree(growth, weekly, monthly) ==
    Seq1([i \in 1..Len(growth) |-> RDiv(RAdd(RAdd(growth[i], weekly[i]), monthly[i]), RInt(3))],
         Len(growth))

\* monthly_target * f[i] / sum(f), f being the blend at the factor 0.1 of the
\* means of the three series
ExpectedDailyTargets(monthly_target, growth, weekly, monthly) ==
    Strict1(LAMBDA mean :
                Strict1(LAMBDA f :
                            Strict1(LAMBDA total :
                                        Seq1([i \in 1..Len(f) |->
                                                 RDiv(RMul(monthly_target, f[i]), total)],
                                             Len(f)),
                                    RSum(f)),
                        Seq1([i \in 1..Len(mean) |-> Blend(mean, Dec(1, 10), i)], Len(mean))),
            MeanOfThree(growth, weekly, monthly))

\* C27: for a month of at least two days, calculate_daily_targets returns
\* daily_target[i] = monthly_target * f[i] / sum(f), where f is the smoothing at
\* the factor 0.1 of the arithmetic mean of the growth, weekly and monthly weights
\* of each day.
C27_DailyTargetsFromMeanOfWeights ==
    (Returned("calculate_daily_targets") /\ last.ret.ok /\ Len(last.args.month_dates) >= 2)
        => last.ret.val = ExpectedDailyTargets(RInt(last.args.monthly_target),
                                               GrowthSeriesOfCall.val, WeeklySeriesOfCall.val,
                                               MonthlySeriesOfCall.val)

\* a month of three days in regression mode with the default sets: the three
\* series differ and so do the targets of the days
C27_Witness ==
    /\ Returned("calculate_daily_targets") /\ last.ret.ok
    /\ Len(last.args.month_dates) = 3
    /\ last.args.use_regression /\ last.args.monthly_targets.some
    /\ last.args.weekly_pattern = "default" /\ last.args.monthly_pattern = "default"
    /\ GrowthSeriesOfCall.val # WeeklySeriesOfCall.val
    /\ WeeklySeriesOfCall.val # MonthlySeriesOfCall.val
    /\ last.ret.val[1] # last.ret.val[2]
    /\ RSum(last.ret.val) = RInt(last.args.monthly_target)

(***************************************************************************)
(* The monthly weights before smoothing (checked under SpecCalc)           *)
(***************************************************************************)
\* days_in_month entries: the i-th coefficient of the set where it has one, and
\* the neutral weight 1 after its end
PrefixOrPadded(coefficients, days_in_month) ==
    Seq1([i \in 1..days_in_month |-> IF i <= Len(coefficients) THEN coefficients[i] ELSE One],
         days_in_month)

\* the set apply_monthly_seasonality looks up for the call in `last`
SetOfCall == GetMonthlyCoefficients(config, last.args.pattern_name)

\* C28: the series apply_monthly_seasonality smooths has exactly days_in_month
\* entries, the first days_in_month coefficients of the set when the set is long
\* enough and otherwise the whole set followed by entries of 1.0; what it returns is
\* the smoothing of that series, and the stored sets are left as they were.
C28_MonthlySeriesPrefixOrPadded ==
    [][(last.op = "apply_monthly_seasonality" /\ last.ret = Pending)
         => /\ Len(PrefixOrPadded(SetOfCall, last.args.days_in_month)) = last.args.days_in_month
            /\ last'.ret = SmoothWeights(PrefixOrPadded(SetOfCall, last.args.days_in_month),
                                         config.monthly_smoothing)
            /\ config' = config]_vars

\* a month of 32 days with the salary-cycle set of 31: the series ends with one
\* entry of 1.0, which is not the first coefficient of the set
C28_Witness ==
    /\ Returned("apply_monthly_seasonality") /\ last.ret.ok
    /\ last.args.days_in_month = 32 /\ last.args.pattern_name = "salary_cycle"
    /\ Len(SetOfCall) = 31 /\ SetOfCall[1] # One
    /\ Len(last.ret.val) = 32
    /\ last.ret = SmoothWeights(SetOfCall \o <<One>>, config.monthly_smoothing)

(***************************************************************************)
(* The shape of the daily breakdown (checked under Spec)                   *)
(***************************************************************************)
\* the calendar days of the month of the row at position idx
CalendarDays(idx) ==
    { dim_date_data.rows[k].persian_date :
        k \in { j \in 1..Len(dim_date_data.rows) :
                  /\ dim_date_data.rows[j].year = bp_data.rows[idx].year
                  /\ dim_date_data.rows[j].month = bp_data.rows[idx].month } }

\* the number of calendar days of the months of the rows before position idx
RECURSIVE DaysBefore(_)
DaysBefore(idx) == IF idx = 1 THEN 0 ELSE DaysBefore(idx - 1) + Cardinality(CalendarDays(idx - 1))

\* the records at the positions of the row at idx: as many as its month has days
AllocationsOfRow(idx) ==
    SubSeq(last.ret.val, DaysBefore(idx) + 1, DaysBefore(idx) + Cardinality(CalendarDays(idx)))

\* one record for every day of the set, in ascending order of the days
OnePerDayAscending(records, days) ==
    /\ Len(records) = Cardinality(days)
    /\ { records[k].persian_date : k \in 1..Len(records) } = days
    /\ \A k \in 1..(Len(records) - 1) : records[k].persian_date < records[k + 1].persian_date

CarriesRow(record, bp_row) ==
    /\ record.year = bp_row.year /\ record.month = bp_row.month
    /\ record.line = bp_row.line /\ record.metric = bp_row.metric
    /\ record.sub_metric = bp_row.sub_metric /\ record.unit = bp_row.unit

\* C29: a successful create_daily_breakdown returns, for every row of the
\* monthly-target table and in the order of the rows, exactly one record for each
\* calendar day of the row's (year, month), in ascending order of the days, each
\* with the row's line, metric, sub_metric and unit; the number of records is the
\* sum over the rows of the days of their months.
C29_OneRecordPerDayOfEachRow ==
    Created =>
        /\ Len(last.ret.val) = DaysBefore(Len(bp_data.rows) + 1)
        /\ \A idx \in 1..Len(bp_data.rows) :
               /\ OnePerDayAscending(AllocationsOfRow(idx), CalendarDays(idx))
               /\ \A k \in 1..Len(AllocationsOfRow(idx)) :
                      CarriesRow(AllocationsOfRow(idx)[k], bp_data.rows[idx])

\* two lines in month 1 and one in month 2: 3 + 3 + 2 records, the calendar rows
\* of month 1 being out of order in the file
C29_Witness ==
    /\ Created
    /\ Len(bp_data.rows) = 3 /\ bp_data.rows[2].line = "B" /\ bp_data.rows[3].month = 2
    /\ dim_date_data.rows[1].persian_date > dim_date_data.rows[2].persian_date
    /\ Len(last.ret.val) = 8
    /\ last.ret.val[4].line = "B" /\ last.ret.val[4].persian_date = 14040101

(***************************************************************************)
(* The range of the smoothed weights (checked under SpecCalc)              *)
(***************************************************************************)
\* value lies between the smallest and the largest weight of the sequence
WithinRangeOf(weights, value) ==
    /\ \E j \in 1..Len(weights) : RLe(weights[j], value)
    /\ \E j \in 1..Len(weights) : RLe(value, weights[j])

IsConstant(weights) == \A j \in 1..Len(weights) : weights[j] = weights[1]

====
